---- MODULE Spec2Model ----
(***************************************************************************)
(* State-machine model of nonparametric/causal_reg.py: the CausalEffect    *)
(* estimator (back-door adjustment), its constructor, its support cube,    *)
(* the pdf / expected_value marginalisation and the mutual information.    *)
(*                                                                         *)
(* Column names are strings; a single-row DataFrame is a sequence of       *)
(* <<name, value>> columns.  Floating point values are integers, except    *)
(* for the entropy integrand, whose value carries a NaN flag.              *)
(***************************************************************************)
EXTENDS Integers, Sequences, FiniteSets, TLC

VARIABLES args, phase, est, lastOp, query, result, trace

vars == <<args, phase, est, lastOp, query, result, trace>>

(***************************************************************************)
(* Bounds of the model.                                                    *)
(***************************************************************************)
\* fitted bandwidths range over 1..MaxBw
MaxBw == 2
\* the sample: the data of a column spans at most MaxWidth + 1 integers
MaxWidth == 2
\* query values range over 1..MaxX
MaxX == 1

\* column names, in the order Python sorts them
Names == <<"a", "b", "c", "d", "e">>
NameSet == {Names[i] : i \in 1..Len(Names)}
Rank(v) == CHOOSE i \in 1..Len(Names) : Names[i] = v

\* the type tags of the docstring of __init__
Types == {"c", "o", "u"}

(***************************************************************************)
(* Python and pandas helpers.                                              *)
(***************************************************************************)
Range(s) == {s[i] : i \in 1..Len(s)}

Min2(a, b) == IF a < b THEN a ELSE b

\* sequences over S without repetition, of length lo..hi
DupFreeSeqs(S, lo, hi) ==
  UNION {{s \in [1..k -> S] : \A i, j \in 1..k : i # j => s[i] # s[j]} : k \in lo..hi}

\* every order a list built from a Python set can have
Orders(S) == DupFreeSeqs(S, Cardinality(S), Cardinality(S))

\* sorted(S) for a set of column names
Sorted(S) ==
  LET ranks == {Rank(v) : v \in S}
  IN  [i \in 1..Cardinality(S) |->
         Names[CHOOSE r \in ranks : Cardinality({q \in ranks : q < r}) = i - 1]]

\* dict(zip(keys, vals)): zip stops at the shorter list, a repeated key keeps
\* its last value
ZipDict(keys, vals) ==
  LET n == Min2(Len(keys), Len(vals))
      last(k) == CHOOSE i \in 1..n : keys[i] = k /\ \A j \in (i+1)..n : keys[j] # k
  IN  [k \in {keys[i] : i \in 1..n} |-> vals[last(k)]]

\* one row with the columns cols, the values from dict
Frame(cols, dict) == [i \in 1..Len(cols) |-> <<cols[i], dict[cols[i]]>>]

\* pd.DataFrame({k : [v] ...}): one row, the columns of a plain dict sorted
DataFrame(dict) == Frame(Sorted(DOMAIN dict), dict)

Columns(df) == [i \in 1..Len(df) |-> df[i][1]]

\* df.values[0]: the row, by position
Values(df) == [i \in 1..Len(df) |-> df[i][2]]

\* df[names]: selection by label, in the order of names
Select(df, names) ==
  [i \in 1..Len(names) |-> <<names[i], df[CHOOSE j \in 1..Len(df) : df[j][1] = names[i]][2]>>]

\* left.join(right) of two one-row frames with distinct labels
Join(left, right) == left \o right

(***************************************************************************)
(* The samples and the fitted models.  A fit is recorded by what it was    *)
(* given: the columns, the type tags and the bandwidth rule.               *)
(***************************************************************************)
\* a sample X: its columns and the empirical minimum and maximum of each,
\* columns of one, two, ... MaxWidth + 1 integers
Sample(cols) ==
  [columns |-> cols,
   lo |-> [v \in cols |-> Rank(v) % 2],
   hi |-> [v \in cols |-> (Rank(v) % 2) + (Rank(v) % (MaxWidth + 1))]]

\* the bandwidth vectors a conditional density fit of n columns may come to
BwVectors(n) == {[i \in 1..n |-> 1 + ((i + k) % MaxBw)] : k \in 0..(MaxBw - 1)}

NoKDE == [fitted |-> FALSE, data |-> <<>>, var_type |-> <<>>, bw_method |-> ""]

NoCondKDE ==
  [fitted |-> FALSE, endog |-> <<>>, exog |-> <<>>, dep_type |-> <<>>,
   indep_type |-> <<>>, bw_method |-> "", bw |-> <<>>]

NoKernelReg ==
  [fitted |-> FALSE, endog |-> <<>>, exog |-> <<>>, var_type |-> <<>>, bw_method |-> ""]

\* KDEMultivariate(X[cols], var_type=..., bw=...)
KDEMultivariate(cols, var_type, bw) ==
  [fitted |-> TRUE, data |-> cols, var_type |-> var_type, bw_method |-> bw]

\* KDEMultivariateConditional(endog=..., exog=..., dep_type=..., indep_type=..., bw=...);
\* vec is the bandwidth vector the fit arrives at, endog columns first
KDEMultivariateConditional(endog, exog, dep_type, indep_type, bw, vec) ==
  [fitted |-> TRUE, endog |-> endog, exog |-> exog, dep_type |-> dep_type,
   indep_type |-> indep_type, bw_method |-> bw, bw |-> vec]

\* KernelReg(endog, exog, var_type, bw=...)
KernelReg(endog, exog, var_type, bw) ==
  [fitted |-> TRUE, endog |-> endog, exog |-> exog, var_type |-> var_type, bw_method |-> bw]

(***************************************************************************)
(* CausalEffect.__init__ and __get_support.                                *)
(***************************************************************************)
SupportPadding == 10

NoEstimator ==
  [causes |-> <<>>, effects |-> <<>>, admissable_set |-> <<>>,
   conditional_density_vars |-> <<>>, variable_types |-> <<>>,
   density |-> NoKDE, conditional_density |-> NoCondKDE,
   conditional_expectation |-> NoKernelReg, support |-> <<>>,
   discrete_variables |-> {}, discrete_Z |-> <<>>,
   continuous_variables |-> {}, continuous_Z |-> <<>>,
   x1 |-> "", x2 |-> "", mi_density |-> NoKDE,
   mi_conditional_density |-> NoCondKDE, x1_integration_density |-> NoKDE,
   integration_density |-> NoKDE, cond_integration_density |-> NoCondKDE]

\* the rule of lines 34-37: decided on every value of the variable_types argument
InitBandwidthRule(variable_types) ==
  IF "c" \notin {variable_types[v] : v \in DOMAIN variable_types}
  THEN "cv_ml" ELSE "normal_reference"

\* __get_support with the bandwidths zipped to the conditioning variables first
GetSupportExogFirst(X, effects, conditional_density_vars, variable_types, bw) ==
  [v \in Range(effects \o conditional_density_vars) |->
     IF variable_types[v] = "c"
     THEN <<X.lo[v] - SupportPadding * ZipDict(conditional_density_vars \o effects, bw)[v],
            X.hi[v] + SupportPadding * ZipDict(conditional_density_vars \o effects, bw)[v]>>
     ELSE <<X.lo[v], X.hi[v]>>]

\* __get_support: the cube around the data, padded for continuous variables by
\* the bandwidth zipped to the variable's name
GetSupport(X, effects, conditional_density_vars, variable_types, bw) ==
  LET names == effects \o conditional_density_vars
      data_support == [v \in X.columns |-> <<X.lo[v], X.hi[v]>>]
      variable_bandwidths == ZipDict(names, bw)
  IN  [v \in Range(names) |->
         IF variable_types[v] = "c"
         THEN <<data_support[v][1] - SupportPadding * variable_bandwidths[v],
                data_support[v][2] + SupportPadding * variable_bandwidths[v]>>
         ELSE data_support[v]]

DiscreteVariables(variable_types) ==
  {v \in DOMAIN variable_types : variable_types[v] \in {"o", "u"}}

ContinuousVariables(variable_types) ==
  {v \in DOMAIN variable_types : variable_types[v] = "c"}

\* the exception __init__ ends in, "" when it returns
ConstructError(a) ==
  LET vt == a.variable_types
      given == ~vt.none /\ DOMAIN vt.map # {}
      cdv == a.causes \o a.admissable_set
      typed(seq) == Range(seq) \subseteq DOMAIN vt.map
      present(seq) == Range(seq) \subseteq a.X.columns
  IN  IF given /\ ~(typed(a.effects) /\ typed(cdv)) THEN "KeyError"
      ELSE IF vt.none THEN "AttributeError"
      ELSE IF a.admissable_set # <<>> /\ ~present(a.admissable_set) THEN "KeyError"
      ELSE IF a.admissable_set # <<>> /\ ~given THEN "NameError"
      ELSE IF ~(present(a.effects) /\ present(cdv)) THEN "KeyError"
      ELSE IF ~given THEN "NameError"
      ELSE ""

\* the estimator __init__ builds: vec is the fitted bandwidth vector of the
\* conditional density, dz and cz the orders of the two lists built from sets
NewCausalEffect(a, vec, dz, cz) ==
  LET variable_types == a.variable_types.map
      conditional_density_vars == a.causes \o a.admissable_set
      dep_type == [i \in 1..Len(a.effects) |-> variable_types[a.effects[i]]]
      indep_type == [i \in 1..Len(conditional_density_vars) |->
                       variable_types[conditional_density_vars[i]]]
      density_types == [i \in 1..Len(a.admissable_set) |->
                          variable_types[a.admissable_set[i]]]
      bw == InitBandwidthRule(variable_types)
  IN  [NoEstimator EXCEPT
         !.causes = a.causes,
         !.effects = a.effects,
         !.admissable_set = a.admissable_set,
         !.conditional_density_vars = conditional_density_vars,
         !.variable_types = variable_types,
         !.density = IF a.admissable_set # <<>>
                     THEN KDEMultivariate(a.admissable_set, density_types, bw)
                     ELSE NoKDE,
         !.conditional_density =
            KDEMultivariateConditional(a.effects, conditional_density_vars,
                                       dep_type, indep_type, bw, vec),
         !.conditional_expectation =
            IF a.expectation
            THEN KernelReg(a.effects, conditional_density_vars, indep_type, "cv_ls")
            ELSE NoKernelReg,
         !.support = GetSupport(a.X, a.effects, conditional_density_vars,
                                variable_types, vec),
         !.discrete_variables = DiscreteVariables(variable_types),
         !.discrete_Z = dz,
         !.continuous_variables = ContinuousVariables(variable_types),
         !.continuous_Z = cz]

NoResult == [ok |-> FALSE, error |-> "", value |-> 0, nan |-> FALSE]

Raised(e) == [ok |-> FALSE, error |-> e, value |-> 0, nan |-> FALSE]

Returned(v) == [ok |-> TRUE, error |-> "", value |-> v, nan |-> FALSE]

Construct ==
  /\ phase = "new"
  /\ IF ConstructError(args) # ""
     THEN /\ phase' = "failed"
          /\ est' = NoEstimator
          /\ result' = Raised(ConstructError(args))
     ELSE /\ phase' = "built"
          /\ result' = NoResult
          /\ \E vec \in BwVectors(Len(args.effects) + Len(args.causes) + Len(args.admissable_set)),
                dz \in Orders(DiscreteVariables(args.variable_types.map) \cap Range(args.admissable_set)),
                cz \in Orders(ContinuousVariables(args.variable_types.map) \cap Range(args.admissable_set)) :
               est' = NewCausalEffect(args, vec, dz, cz)
  /\ lastOp' = "__init__"
  /\ UNCHANGED <<args, query, trace>>

(***************************************************************************)
(* The collaborators at query time: the fitted models evaluated at a row   *)
(* of values given by position, itertools.product, xrange and nquad.       *)
(***************************************************************************)
RECURSIVE Code(_)
\* a number that depends on every value of the row and on its order
Code(vals) ==
  IF vals = <<>> THEN 0 ELSE 3 * Code(SubSeq(vals, 1, Len(vals) - 1)) + vals[Len(vals)]

\* model.pdf(data_predict=vals) of a KDEMultivariate: a density, zero at some rows
KdePdf(fit, vals) == (Code(vals) + Len(fit.data)) % 3

\* model.pdf(exog_predict=..., endog_predict=...) of a KDEMultivariateConditional
CondKdePdf(fit, exog_vals, endog_vals) == (Code(endog_vals \o exog_vals) + Len(fit.exog)) % 4

\* model.fit(data_predict=vals)[0] of a KernelReg
KernelRegFit(fit, vals) == 1 + ((2 * Code(vals) + Len(fit.exog)) % 5)

RECURSIVE SumSeq(_)
SumSeq(s) == IF s = <<>> THEN 0 ELSE s[1] + SumSeq(Tail(s))

\* the values of a sequence of evaluations or terms
ValuesOf(evals) == [i \in 1..Len(evals) |-> evals[i].value]

\* xrange(a, b)
XRange(a, b) == [i \in 1..(b - a) |-> a + i - 1]

\* every row that starts with an element of h and goes on with a row of t
Cross(h, t) ==
  [k \in 1..(Len(h) * Len(t)) |->
     <<h[((k - 1) \div Len(t)) + 1]>> \o t[((k - 1) % Len(t)) + 1]]

RECURSIVE Product(_)
\* itertools.product(*ranges): the last range varies fastest
Product(ranges) ==
  IF ranges = <<>> THEN << <<>> >> ELSE Cross(Head(ranges), Product(Tail(ranges)))

\* the points nquad evaluates the integrand at: the corners of the box
QuadPoints(ranges) == Product([i \in 1..Len(ranges) |-> <<ranges[i][1], ranges[i][2]>>])

\* one evaluation of an integrand: the positional arguments, the frame built
\* from them, and the rows handed to the models
Evaluation(allargs, data, exog, endog, z, err, v) ==
  [allargs |-> allargs, data |-> data, exog |-> exog, endog |-> endog, z |-> z,
   error |-> err, value |-> v]

\* the evaluations of a sequence up to the first that raises
UntilError(evals) ==
  IF \E i \in 1..Len(evals) : evals[i].error # ""
  THEN SubSeq(evals, 1, CHOOSE i \in 1..Len(evals) :
                           evals[i].error # "" /\ \A j \in 1..(i - 1) : evals[j].error = "")
  ELSE evals

\* the exception a sequence cut by UntilError ends in, "" when it has none
LastError(evals) ==
  IF evals # <<>> /\ evals[Len(evals)].error # "" THEN evals[Len(evals)].error ELSE ""

\* what nquad hands back: the evaluations it made, their sum, or the exception
Quadrature(evals) ==
  [evals |-> evals, error |-> LastError(evals), value |-> SumSeq(ValuesOf(evals))]

(***************************************************************************)
(* integration_function and expectation_integration_function.              *)
(***************************************************************************)
\* lines 146-149, on the frame of line 145
IntegrandAt(e, allargs, data, exog, endog, z) ==
  IF ~e.density.fitted
  THEN Evaluation(allargs, data, exog, endog, z, "AttributeError", 0)
  ELSE Evaluation(allargs, data, exog, endog, z, "",
                  CondKdePdf(e.conditional_density, exog, endog) * KdePdf(e.density, z))

IntegrandOn(e, allargs, data) ==
  IntegrandAt(e, allargs, data,
              Values(Select(data, e.conditional_density_vars)),
              Values(Select(data, e.effects)),
              Values(Select(data, e.admissable_set)))

\* integration_function(*args)
IntegrationFunction(e, allargs) ==
  IntegrandOn(e, allargs,
              DataFrame(ZipDict(e.continuous_Z \o e.discrete_Z \o e.causes \o e.effects,
                                allargs)))

\* lines 154-156, on the frame of line 153
ExpectationIntegrandAt(e, allargs, data, exog, z) ==
  IF ~e.conditional_expectation.fitted \/ ~e.density.fitted
  THEN Evaluation(allargs, data, exog, <<>>, z, "AttributeError", 0)
  ELSE Evaluation(allargs, data, exog, <<>>, z, "",
                  KernelRegFit(e.conditional_expectation, exog) * KdePdf(e.density, z))

ExpectationIntegrandOn(e, allargs, data) ==
  ExpectationIntegrandAt(e, allargs, data,
                         Values(Select(data, e.conditional_density_vars)),
                         Values(Select(data, e.admissable_set)))

\* expectation_integration_function(*args)
ExpectationIntegrationFunction(e, allargs) ==
  ExpectationIntegrandOn(e, allargs,
                         DataFrame(ZipDict(e.continuous_Z \o e.discrete_Z \o e.causes, allargs)))

(***************************************************************************)
(* The fits of biased_mutual_information and entropy_integration_function. *)
(***************************************************************************)
\* 100 * np.log(p) for a density p > 0, rounded
Log100(p) == IF p = 1 THEN 0 ELSE IF p = 2 THEN 69 ELSE 110

\* the rule of lines 100-103
MiBandwidthRule(density_types) ==
  IF "c" \notin Range(density_types) THEN "cv_ml" ELSE "normal_reference"

\* lines 104-117 with the marginal fit assigned to self.density
MiFitsWithOverDensity(e, x1, x2, dep_type, indep_type, bw) ==
  [e EXCEPT
     !.x1 = x1,
     !.x2 = x2,
     !.density = KDEMultivariate(<<x2>>, dep_type, bw),
     !.mi_density = KDEMultivariate(<<x2>>, dep_type, bw),
     !.mi_conditional_density =
        KDEMultivariateConditional(<<x2>>, <<x1>>, dep_type, indep_type, bw, <<1, 1>>),
     !.x1_integration_density = KDEMultivariate(<<x2>>, dep_type, bw),
     !.integration_density = KDEMultivariate(<<x2>>, dep_type, bw),
     !.cond_integration_density =
        KDEMultivariateConditional(<<x2>>, <<x1>>, dep_type, indep_type, bw, <<1, 1>>)]

\* lines 104-117, with the lists and the rule of lines 96-103
MiFitsWith(e, x1, x2, dep_type, indep_type, bw) ==
  [e EXCEPT
     !.x1 = x1,
     !.x2 = x2,
     !.mi_density = KDEMultivariate(<<x2>>, dep_type, bw),
     !.mi_conditional_density =
        KDEMultivariateConditional(<<x2>>, <<x1>>, dep_type, indep_type, bw, <<1, 1>>),
     !.x1_integration_density = KDEMultivariate(<<x2>>, dep_type, bw),
     !.integration_density = KDEMultivariate(<<x2>>, dep_type, bw),
     !.cond_integration_density =
        KDEMultivariateConditional(<<x2>>, <<x1>>, dep_type, indep_type, bw, <<1, 1>>)]

\* the fields biased_mutual_information assigns before it integrates
MiFits(e, x1, x2) ==
  MiFitsWith(e, x1, x2, <<e.variable_types[x1]>>, <<e.variable_types[x2]>>,
             MiBandwidthRule(<<e.variable_types[x1], e.variable_types[x2]>>))

\* one evaluation of the entropy integrand: the density p under the
\* logarithm, the factor in front of it, and the value, 100 times the float,
\* or NaN
EntropyEvaluation(allargs, data, p, factor, r) ==
  [allargs |-> allargs, data |-> data, p |-> p, factor |-> factor, nan |-> r.nan,
   error |-> "", value |-> r.value]

\* - factor * p * np.log(p): np.log(0) is -inf, and 0 * -inf is NaN
MinusPLogP(factor, p) ==
  [nan |-> p = 0, value |-> IF p = 0 THEN 0 ELSE 0 - factor * p * Log100(p)]

\* lines 134-136
ConditionalEntropyAt(e, allargs, data, p, factor) ==
  EntropyEvaluation(allargs, data, p, factor, MinusPLogP(factor, p))

\* lines 138-139
MarginalEntropyAt(e, allargs, data, p) ==
  EntropyEvaluation(allargs, data, p, 1, MinusPLogP(1, p))

EntropyIntegrandOn(e, allargs, data) ==
  IF Len(allargs) = 2
  THEN ConditionalEntropyAt(e, allargs, data,
                            CondKdePdf(e.cond_integration_density,
                                       Values(Select(data, <<e.x1>>)),
                                       Values(Select(data, <<e.x2>>))),
                            KdePdf(e.x1_integration_density, Values(Select(data, <<e.x1>>))))
  ELSE MarginalEntropyAt(e, allargs, data,
                         KdePdf(e.integration_density, Values(Select(data, <<e.x2>>))))

\* entropy_integration_function(*args), called by nquad with one or two arguments
EntropyIntegrationFunction(e, allargs) ==
  EntropyIntegrandOn(e, allargs,
                     DataFrame(ZipDict(IF Len(allargs) = 2 THEN <<e.x1, e.x2>> ELSE <<e.x2>>,
                                       allargs)))

(***************************************************************************)
(* nquad on the three integrands, pdf and expected_value.                  *)
(***************************************************************************)
\* func(*allargs) for the bound method handed to nquad
Call(func, e, allargs) ==
  IF func = "integration_function" THEN IntegrationFunction(e, allargs)
  ELSE IF func = "expectation_integration_function"
  THEN ExpectationIntegrationFunction(e, allargs)
  ELSE EntropyIntegrationFunction(e, allargs)

EvaluateAt(func, e, pts, extra) == [i \in 1..Len(pts) |-> Call(func, e, pts[i] \o extra)]

\* nquad(func, ranges, args=args)[0]: func(z_1, ..., z_n, *args) at every point
NQuad(func, e, ranges, extra) ==
  Quadrature(UntilError(EvaluateAt(func, e, QuadPoints(ranges), extra)))

\* one pass of the loop over the discrete lattice, or the single term of the
\* other branches: the lattice point, the integrand evaluations of a
\* quadrature, the rows of a direct evaluation
Term(kind, z_vals, evals, exog, endog, z, err, v) ==
  [kind |-> kind, z_vals |-> z_vals, evals |-> evals, exog |-> exog, endog |-> endog,
   z |-> z, error |-> err, value |-> v]

QuadratureTerm(z_vals, q) ==
  Term("nquad", z_vals, q.evals, <<>>, <<>>, <<>>, q.error, q.value)

\* the ranges without the + 1: the maximum left out
DiscreteVariableRangesExclusive(e) ==
  [i \in 1..Len(e.discrete_Z) |->
     XRange(e.support[e.discrete_Z[i]][1], e.support[e.discrete_Z[i]][2])]

\* [xrange(int(lo), int(hi) + 1) for variable in self.discrete_Z]; the
\* columns of a discrete variable hold integers
DiscreteVariableRanges(e) ==
  [i \in 1..Len(e.discrete_Z) |->
     XRange(e.support[e.discrete_Z[i]][1], e.support[e.discrete_Z[i]][2] + 1)]

\* [self.support[variable] for variable in self.continuous_Z]
ContinuousZRanges(e) == [i \in 1..Len(e.continuous_Z) |-> e.support[e.continuous_Z[i]]]

\* args of the quadrature in the mixed branch: z_discrete.join(x).values[0],
\* z_discrete the frame of the dict zip(self.discrete_Z, z_vals)
MixedArgs(e, z_vals, x) == Values(Join(DataFrame(ZipDict(e.discrete_Z, z_vals)), x))

\* lines 182-188 of pdf, on z_discrete[self.admissable_set]
PdfProductAt(e, z_vals, x, z_discrete, exog, endog) ==
  Term("product", z_vals, <<>>, exog, endog, Values(z_discrete), "",
       CondKdePdf(e.conditional_density, exog, endog) * KdePdf(e.density, Values(z_discrete)))

PdfProductOn(e, z_vals, x, z_discrete) ==
  PdfProductAt(e, z_vals, x, z_discrete,
               Values(Select(Join(x, z_discrete), e.conditional_density_vars)),
               Values(Select(x, e.effects)))

\* the term of pdf at the lattice point z_vals
PdfTerm(e, z_vals, x) ==
  IF e.continuous_Z # <<>>
  THEN QuadratureTerm(z_vals, NQuad("integration_function", e, ContinuousZRanges(e),
                                    MixedArgs(e, z_vals, x)))
  ELSE PdfProductOn(e, z_vals, x,
                    Select(DataFrame(ZipDict(e.discrete_Z, z_vals)), e.admissable_set))

PdfLattice(e, pts, x) == UntilError([i \in 1..Len(pts) |-> PdfTerm(e, pts[i], x)])

\* line 195 with the two keyword arguments exchanged
PdfDirectExchanged(e, exog, endog) ==
  <<Term("direct", <<>>, <<>>, endog, exog, <<>>, "",
         CondKdePdf(e.conditional_density, endog, exog))>>

\* line 195
PdfDirect(e, exog, endog) ==
  <<Term("direct", <<>>, <<>>, exog, endog, <<>>, "",
         CondKdePdf(e.conditional_density, exog, endog))>>

\* the branches of pdf on x[self.causes + self.effects]
PdfBranches(e, x) ==
  IF e.discrete_Z # <<>>
  THEN PdfLattice(e, Product(DiscreteVariableRanges(e)), x)
  ELSE IF e.continuous_Z # <<>>
  THEN <<QuadratureTerm(<<>>, NQuad("integration_function", e, ContinuousZRanges(e),
                                    Values(x)))>>
  ELSE PdfDirect(e, Values(Select(x, e.causes)), Values(Select(x, e.effects)))

\* the terms pdf(x) accumulates, in order
PdfTerms(e, x) == PdfBranches(e, Select(x, e.causes \o e.effects))

\* line 224 of expected_value, on z_discrete[self.admissable_set]
ExpectedValueProductAt(e, z_vals, z_discrete, exog) ==
  IF ~e.conditional_expectation.fitted
  THEN Term("product", z_vals, <<>>, exog, <<>>, Values(z_discrete), "AttributeError", 0)
  ELSE Term("product", z_vals, <<>>, exog, <<>>, Values(z_discrete), "",
            KernelRegFit(e.conditional_expectation, exog)
              * KdePdf(e.density, Values(z_discrete)))

ExpectedValueProductOn(e, z_vals, x, z_discrete) ==
  ExpectedValueProductAt(e, z_vals, z_discrete,
                         Values(Select(Join(x, z_discrete), e.conditional_density_vars)))

\* the term of expected_value at the lattice point z_vals
ExpectedValueTerm(e, z_vals, x) ==
  IF e.continuous_Z # <<>>
  THEN QuadratureTerm(z_vals, NQuad("expectation_integration_function", e,
                                    ContinuousZRanges(e), MixedArgs(e, z_vals, x)))
  ELSE ExpectedValueProductOn(e, z_vals, x,
                              Select(DataFrame(ZipDict(e.discrete_Z, z_vals)), e.admissable_set))

ExpectedValueLattice(e, pts, x) ==
  UntilError([i \in 1..Len(pts) |-> ExpectedValueTerm(e, pts[i], x)])

\* line 231 answered by the conditional density when no regression was fitted
ExpectedValueDirectFallback(e, exog) ==
  <<Term("direct", <<>>, <<>>, exog, <<>>, <<>>, "",
         IF e.conditional_expectation.fitted
         THEN KernelRegFit(e.conditional_expectation, exog)
         ELSE CondKdePdf(e.conditional_density, exog, <<>>))>>

\* line 231
ExpectedValueDirect(e, exog) ==
  IF ~e.conditional_expectation.fitted
  THEN <<Term("direct", <<>>, <<>>, exog, <<>>, <<>>, "AttributeError", 0)>>
  ELSE <<Term("direct", <<>>, <<>>, exog, <<>>, <<>>, "",
              KernelRegFit(e.conditional_expectation, exog))>>

\* the branches of expected_value on x[self.causes]
ExpectedValueBranches(e, x) ==
  IF e.discrete_Z # <<>>
  THEN ExpectedValueLattice(e, Product(DiscreteVariableRanges(e)), x)
  ELSE IF e.continuous_Z # <<>>
  THEN <<QuadratureTerm(<<>>, NQuad("expectation_integration_function", e,
                                    ContinuousZRanges(e), Values(x)))>>
  ELSE ExpectedValueDirect(e, Values(Select(x, e.causes)))

\* the terms expected_value(x) accumulates, in order
ExpectedValueTerms(e, x) == ExpectedValueBranches(e, Select(x, e.causes))

\* what a query returns from the terms it accumulated: causal_effect, or the
\* exception of the term that raised
Outcome(terms) ==
  IF LastError(terms) # "" THEN Raised(LastError(terms))
  ELSE Returned(SumSeq(ValuesOf(terms)))

\* the single-row queries: a value for every cause and effect
Queries(e) ==
  {DataFrame([v \in Range(e.causes) \cup Range(e.effects) |-> k + Rank(v)]) : k \in 1..MaxX}

Pdf ==
  /\ phase = "built"
  /\ \E x \in Queries(est) : \E terms \in {PdfTerms(est, x)} :
       /\ query' = x
       /\ trace' = terms
       /\ result' = Outcome(terms)
  /\ lastOp' = "pdf"
  /\ UNCHANGED <<args, phase, est>>

ExpectedValue ==
  /\ phase = "built"
  /\ \E x \in Queries(est) : \E terms \in {ExpectedValueTerms(est, x)} :
       /\ query' = x
       /\ trace' = terms
       /\ result' = Outcome(terms)
  /\ lastOp' = "expected_value"
  /\ UNCHANGED <<args, phase, est>>

(***************************************************************************)
(* biased_mutual_information.                                              *)
(***************************************************************************)
\* the float nquad hands back: NaN as soon as one value of the integrand is
EntropyOf(q) ==
  [evals |-> q.evals, nan |-> \E i \in 1..Len(q.evals) : q.evals[i].nan, value |-> q.value]

\* nquad(self.entropy_integration_function, ranges)[0]
EntropyIntegral(e, ranges) ==
  EntropyOf(NQuad("entropy_integration_function", e, ranges, <<>>))

\* return Hx2 - Hx2givenx1
MutualInformation(Hx2, Hx2givenx1) ==
  [ok |-> TRUE, error |-> "", value |-> Hx2.value - Hx2givenx1.value,
   nan |-> Hx2.nan \/ Hx2givenx1.nan]

\* the pairs the mutual information is asked for: of a cause with itself,
\* with another cause or with an effect
MiPairs(e) == Range(e.causes) \X (Range(e.causes) \cup Range(e.effects))

BiasedMutualInformation ==
  /\ phase = "built"
  /\ \E pair \in MiPairs(est) :
       \E e \in {MiFits(est, pair[1], pair[2])} :
         \E Hx2 \in {EntropyIntegral(e, <<e.support[e.x2]>>)},
            Hx2givenx1 \in {EntropyIntegral(e, <<e.support[e.x1], e.support[e.x2]>>)} :
           /\ est' = e
           /\ trace' = <<Hx2, Hx2givenx1>>
           /\ result' = MutualInformation(Hx2, Hx2givenx1)
  /\ lastOp' = "biased_mutual_information"
  /\ UNCHANGED <<args, phase, query>>

(***************************************************************************)
(* The arguments of the constructor and the three specifications.          *)
(***************************************************************************)
Arguments(X, causes, effects, admissable_set, none, map, expectation, density) ==
  [X |-> X, causes |-> causes, effects |-> effects, admissable_set |-> admissable_set,
   variable_types |-> [none |-> none, map |-> map],
   expectation |-> expectation, density |-> density]

\* every mapping that types exactly the variables of S: the tags of the
\* variables of Z are taken from zt, those of the others from xt
TypeMaps(S, Z, zt, xt) ==
  {t \in [S -> Types] : \A v \in S : t[v] \in (IF v \in Z THEN zt ELSE xt)}

\* causal specifications that keep the three roles apart, on a sample that
\* has every column, with a mapping that types every variable named
ValidArguments(ZNames, zt, xt, densityFlags) ==
  UNION {{Arguments(Sample(NameSet), <<"d">>, <<"e">>, z, FALSE, t, ex, de) :
            t \in TypeMaps({"d", "e"} \cup Range(z), ZNames, zt, xt),
            ex \in BOOLEAN, de \in densityFlags} :
         z \in DupFreeSeqs(ZNames, 0, Cardinality(ZNames))}

\* any call of the constructor over three column names: roles that overlap,
\* a mapping that is None, empty or lacks a variable, a sample that lacks a column
AnyArguments ==
  LET N == {"a", "d", "e"}
      columns == {NameSet, NameSet \ {"a"}}
      maps == [N -> Types] \cup [N \ {"a"} -> Types] \cup {<<>>}
  IN  {Arguments(Sample(cols), c, e, z, FALSE, t, ex, TRUE) :
         cols \in columns, c \in DupFreeSeqs(N, 1, 1), e \in DupFreeSeqs(N, 1, 1),
         z \in DupFreeSeqs(N, 0, 2), t \in maps, ex \in BOOLEAN}
      \cup
      {Arguments(Sample(cols), c, e, z, TRUE, <<>>, ex, TRUE) :
         cols \in columns, c \in DupFreeSeqs(N, 1, 1), e \in DupFreeSeqs(N, 1, 1),
         z \in DupFreeSeqs(N, 0, 2), ex \in BOOLEAN}

Start ==
  /\ phase = "new"
  /\ est = NoEstimator
  /\ lastOp = "none"
  /\ query = <<>>
  /\ result = NoResult
  /\ trace = <<>>

\* the life of an estimator: construction, then any sequence of calls
Init == args \in ValidArguments({"b", "c"}, Types, {"c", "o"}, BOOLEAN) /\ Start

Next == Construct \/ Pdf \/ ExpectedValue \/ BiasedMutualInformation

Spec == Init /\ [][Next]_vars

\* the two queries over every order of up to three confounders of every type
InitQueries == args \in ValidArguments({"a", "b", "c"}, Types, {"c"}, {TRUE}) /\ Start

NextQueries == Construct \/ Pdf \/ ExpectedValue

SpecQueries == InitQueries /\ [][NextQueries]_vars

\* the constructor alone, on any arguments
InitConstruct == args \in AnyArguments /\ Start

NextConstruct == Construct

SpecConstruct == InitConstruct /\ [][NextConstruct]_vars

(***************************************************************************)
(* Properties.                                                             *)
(***************************************************************************)
Built == phase = "built"

\* the value the query gives to the variable v
QueryValue(v) == query[CHOOSE j \in 1..Len(query) : query[j][1] = v][2]

QueryRow(names) == [i \in 1..Len(names) |-> QueryValue(names[i])]

\* C1: on an estimator with an empty admissible set a query is one direct
\* evaluation and nothing else: pdf(x) returns the conditional density at
\* (causes = x.causes, effects = x.effects), expected_value(x), where the
\* regression was fitted, the conditional expectation at causes = x.causes;
\* no marginal density is evaluated, no lattice is walked, no quadrature runs.
EmptyAdmissibleSetIsDirect ==
  (Built /\ est.admissable_set = <<>> /\ lastOp \in {"pdf", "expected_value"}) =>
     /\ Len(trace) = 1
     /\ trace[1].kind = "direct"
     /\ trace[1].evals = <<>>
     /\ trace[1].z = <<>>
     /\ trace[1].z_vals = <<>>
     /\ trace[1].exog = QueryRow(est.causes)
     /\ lastOp = "pdf" =>
          /\ trace[1].endog = QueryRow(est.effects)
          /\ result = Returned(CondKdePdf(est.conditional_density, QueryRow(est.causes),
                                          QueryRow(est.effects)))
     /\ (lastOp = "expected_value" /\ est.conditional_expectation.fitted) =>
          result = Returned(KernelRegFit(est.conditional_expectation, QueryRow(est.causes)))

EmptyAdmissibleSetWitness ==
  /\ Built /\ est.admissable_set = <<>>
  /\ lastOp = "expected_value" /\ result.ok
  /\ est.x1 # ""

\* C2: the constructor raises, and leaves no estimator, whenever two of
\* causes, effects and the admissible set share a variable, or a variable
\* named in them has no column in the sample or no entry in the type mapping.
RolesOverlap(a) ==
  \/ Range(a.causes) \cap Range(a.effects) # {}
  \/ Range(a.causes) \cap Range(a.admissable_set) # {}
  \/ Range(a.effects) \cap Range(a.admissable_set) # {}

VariableMissing(a) ==
  LET named == Range(a.causes) \cup Range(a.effects) \cup Range(a.admissable_set)
  IN  \/ ~(named \subseteq a.X.columns)
      \/ a.variable_types.none
      \/ ~(named \subseteq DOMAIN a.variable_types.map)

ConstructionRejectsBadSpecification ==
  (lastOp = "__init__" /\ (RolesOverlap(args) \/ VariableMissing(args))) =>
     (phase = "failed" /\ est = NoEstimator)

\* C3: calls of pdf, expected_value and biased_mutual_information keep the
\* causal specification, the types, the support cube, the partition of Z and
\* the three fitted models; pdf and expected_value assign no field at all;
\* a query answers as it would on the estimator just constructed.
Kept(e) ==
  <<e.causes, e.effects, e.admissable_set, e.conditional_density_vars, e.variable_types,
    e.support, e.discrete_variables, e.discrete_Z, e.continuous_variables, e.continuous_Z,
    e.density, e.conditional_density, e.conditional_expectation>>

\* the estimator as it left the constructor
AsConstructed(e) ==
  [e EXCEPT !.x1 = "", !.x2 = "", !.mi_density = NoKDE,
            !.mi_conditional_density = NoCondKDE, !.x1_integration_density = NoKDE,
            !.integration_density = NoKDE, !.cond_integration_density = NoCondKDE]

QueriesKeepTheEstimator ==
  /\ [][Built => /\ Kept(est') = Kept(est)
                 /\ lastOp' \in {"pdf", "expected_value"} => est' = est]_vars
  /\ [](lastOp = "pdf" => result = Outcome(PdfTerms(AsConstructed(est), query)))
  /\ [](lastOp = "expected_value" =>
          result = Outcome(ExpectedValueTerms(AsConstructed(est), query)))

QueryAfterMutualInformationWitness ==
  /\ Built /\ est.x1 # "" /\ est.admissable_set # <<>>
  /\ lastOp = "pdf" /\ result.ok

\* C4: every fitted model has the bandwidth rule that the type tags of its
\* own variables select: a cross-validated rule when none of them is
\* continuous, the plug-in normal-reference rule otherwise.
RuleKind(method) == IF method \in {"cv_ml", "cv_ls"} THEN "cross-validated" ELSE "plug-in"

RuleFor(names) ==
  IF \E i \in 1..Len(names) : est.variable_types[names[i]] = "c"
  THEN "plug-in" ELSE "cross-validated"

OwnRuleKDE(fit) == fit.fitted => RuleKind(fit.bw_method) = RuleFor(fit.data)

OwnRuleConditional(fit) ==
  fit.fitted => RuleKind(fit.bw_method) = RuleFor(fit.endog \o fit.exog)

BandwidthRulePerModel ==
  Built =>
    /\ OwnRuleKDE(est.density)
    /\ OwnRuleConditional(est.conditional_density)
    /\ OwnRuleConditional(est.conditional_expectation)
    /\ OwnRuleKDE(est.mi_density)
    /\ OwnRuleConditional(est.mi_conditional_density)
    /\ OwnRuleKDE(est.x1_integration_density)

\* C5: the support cube holds, for every variable of effects, causes and the
\* admissible set and for no other, the empirical (min, max) of a discrete
\* variable, and (min - 10 bw, max + 10 bw) of a continuous one, bw the
\* bandwidth the conditional density fitted at a position of that variable;
\* the interval never lies inside (min, max).
SupportCube ==
  Built =>
    LET names == est.effects \o est.conditional_density_vars
        bw == est.conditional_density.bw
    IN  /\ DOMAIN est.support = Range(est.causes) \cup Range(est.effects)
                                  \cup Range(est.admissable_set)
        /\ Len(bw) = Len(names)
        /\ \A v \in DOMAIN est.support :
             /\ est.variable_types[v] # "c" =>
                  est.support[v] = <<args.X.lo[v], args.X.hi[v]>>
             /\ est.variable_types[v] = "c" =>
                  \E i \in 1..Len(names) :
                     /\ names[i] = v
                     /\ est.support[v] = <<args.X.lo[v] - 10 * bw[i], args.X.hi[v] + 10 * bw[i]>>
             /\ est.support[v][1] <= args.X.lo[v]
             /\ est.support[v][2] >= args.X.hi[v]

SupportCubeWitness ==
  /\ Built
  /\ \E v, w \in DOMAIN est.support :
        /\ est.variable_types[v] = "c" /\ est.variable_types[w] = "o"
        /\ est.support[v][1] < args.X.lo[v] - 10
  /\ \E i, j \in 1..Len(est.conditional_density.bw) :
        est.conditional_density.bw[i] # est.conditional_density.bw[j]

\* C6: in the mutual information an integration point where the density is
\* exactly zero contributes zero: the integrand is never NaN there, and the
\* result is a defined number.
ZeroDensityContributesZero ==
  (Built /\ lastOp = "biased_mutual_information") =>
     /\ ~result.nan
     /\ \A h \in 1..Len(trace) : \A i \in 1..Len(trace[h].evals) :
          trace[h].evals[i].p = 0 =>
             (~trace[h].evals[i].nan /\ trace[h].evals[i].value = 0)

\* C7: the fits of biased_mutual_information(X, x1, x2): the marginal density
\* of the entropy of x2 is fitted on the column x2, the density in front of
\* the conditional integrand on the column x1, the conditional density with
\* x2 dependent and x1 conditioning, each with the type tag of its column.
MutualInformationFitsOwnColumns ==
  (Built /\ est.x1 # "") =>
     /\ est.integration_density.data = <<est.x2>>
     /\ est.integration_density.var_type = <<est.variable_types[est.x2]>>
     /\ est.x1_integration_density.data = <<est.x1>>
     /\ est.x1_integration_density.var_type = <<est.variable_types[est.x1]>>
     /\ est.cond_integration_density.endog = <<est.x2>>
     /\ est.cond_integration_density.exog = <<est.x1>>
     /\ est.cond_integration_density.dep_type = <<est.variable_types[est.x2]>>
     /\ est.cond_integration_density.indep_type = <<est.variable_types[est.x1]>>

\* C8: every evaluation of an integrand of pdf and expected_value binds each
\* name to its own value: a continuous confounder to its quadrature
\* coordinate, a discrete confounder to its coordinate of the lattice point,
\* a cause or an effect to its value in the query; the models get their rows
\* in the order they were fitted with.
OwnValue(term, ev, v) ==
  IF \E k \in 1..Len(est.continuous_Z) : est.continuous_Z[k] = v
  THEN ev.allargs[CHOOSE k \in 1..Len(est.continuous_Z) : est.continuous_Z[k] = v]
  ELSE IF \E k \in 1..Len(est.discrete_Z) : est.discrete_Z[k] = v
  THEN term.z_vals[CHOOSE k \in 1..Len(est.discrete_Z) : est.discrete_Z[k] = v]
  ELSE QueryValue(v)

OwnRow(term, ev, names) == [i \in 1..Len(names) |-> OwnValue(term, ev, names[i])]

IntegrandBindsOwnValues ==
  (Built /\ lastOp \in {"pdf", "expected_value"}) =>
     \A h \in 1..Len(trace) : \A i \in 1..Len(trace[h].evals) :
        /\ trace[h].evals[i].exog = OwnRow(trace[h], trace[h].evals[i], est.conditional_density_vars)
        /\ trace[h].evals[i].z = OwnRow(trace[h], trace[h].evals[i], est.admissable_set)
        /\ lastOp = "pdf" =>
             trace[h].evals[i].endog = OwnRow(trace[h], trace[h].evals[i], est.effects)

\* C9: with a discrete confounder, a query that returns accumulated exactly
\* one term for every point of the product of the inclusive ranges
\* [min_v, max_v] of the discrete confounders, a quadrature when there is a
\* continuous confounder and a product of two evaluations otherwise, and
\* returns the sum of the terms; pdf always returns, expected_value where the
\* regression was fitted.
RECURSIVE ProductOfSizes(_)
ProductOfSizes(names) ==
  IF names = <<>> THEN 1
  ELSE (args.X.hi[Head(names)] - args.X.lo[Head(names)] + 1) * ProductOfSizes(Tail(names))

Lattice(S) ==
  {f \in [S -> 0..(MaxWidth + 2)] : \A v \in S : args.X.lo[v] <= f[v] /\ f[v] <= args.X.hi[v]}

OneTermPerLatticePoint ==
  (Built /\ est.discrete_Z # <<>> /\ lastOp \in {"pdf", "expected_value"}
         /\ (lastOp = "pdf" \/ est.conditional_expectation.fitted)) =>
     /\ result.ok
     /\ Len(trace) = ProductOfSizes(est.discrete_Z)
     /\ {ZipDict(est.discrete_Z, trace[h].z_vals) : h \in 1..Len(trace)}
          = Lattice(DiscreteVariables(est.variable_types) \cap Range(est.admissable_set))
     /\ \A h \in 1..Len(trace) :
          trace[h].kind = IF est.continuous_Z # <<>> THEN "nquad" ELSE "product"
     /\ result.value = SumSeq(ValuesOf(trace))

OneTermPerLatticePointWitness ==
  /\ Built /\ Len(est.discrete_Z) = 2 /\ est.continuous_Z = <<>>
  /\ lastOp = "expected_value" /\ result.ok
  /\ Len(trace) > 2

\* C10: expected_value returns a value exactly on the estimators constructed
\* with expectation set, and otherwise ends in an error and leaves the
\* estimator as it was; pdf returns on every estimator, whatever the two flags.
ExpectedValueNeedsTheRegression ==
  /\ [](Built =>
          /\ lastOp = "expected_value" =>
               /\ result.ok <=> args.expectation
               /\ ~args.expectation => result.error = "AttributeError"
          /\ lastOp = "pdf" => result.ok)
  /\ [][(Built /\ lastOp' = "expected_value" /\ ~result'.ok) => est' = est]_vars

ExpectedValueWithoutRegressionWitness ==
  /\ Built /\ ~args.expectation /\ ~args.density
  /\ est.discrete_Z # <<>> /\ est.continuous_Z # <<>>
  /\ lastOp = "expected_value" /\ result.error = "AttributeError"

====
